---- MODULE Spec2Model ----
(***************************************************************************)
(* Model of src/server.js: a simulated transcription service.              *)
(*                                                                         *)
(* State: the in-memory Map `uploads`, the setInterval timers started by   *)
(* simulateProcessing, the wall clock read by Date.now(), the async        *)
(* request handlers suspended at an `await`, and the HTTP response written *)
(* by the step just taken.                                                 *)
(*                                                                         *)
(* Node runs every callback to completion, so each action below is one     *)
(* run-to-completion segment: a handler from its start to its first        *)
(* `await` or its response, a handler from the end of an `await` to its    *)
(* response, or one firing of an interval callback.                        *)
(*                                                                         *)
(* Times are milliseconds.  The clock is observed at a granularity of one  *)
(* update interval and is taken to be non-decreasing.                      *)
(***************************************************************************)
EXTENDS Integers, Sequences, FiniteSets, TLC

\* ---------------------------------------------------------------- bounds
\* Number of ids randomUUID can hand out (uploads that can be accepted).
MaxUploads == 2
\* Number of request handlers that can be suspended at an await at once.
MaxRequests == 1
\* Upload requests, and the requests that draw a delay, arrive during the
\* first MaxArrivalSteps clock steps; the other requests arrive at any time.
MaxArrivalSteps == 0
\* A due timer is run before the clock moves more than MaxLag steps past it.
MaxLag == 1
\* The longest stall of the event loop, in update intervals.
MaxStallSteps == 19
\* Number of uploads accepted where the firings are counted under stalls.
MaxWatched == 1

\* ------------------------------------------------------- program constants
updateInterval == 1000
TimeoutDelay == 35000
SlowDelayBase == 1000
SlowDelaySpan == 2000

SUPPORTED_AUDIO_TYPES ==
    {"audio/mp4", "audio/x-m4a", "audio/m4a", "audio/wav", "audio/x-wav"}

\* CONFIG of the source; the rates are kept in percent.
ShippedConfig ==
    [ uploadFailureRate     |-> 15,
      timeoutRate           |-> 10,
      processingFailureRate |-> 10,
      minProcessingTime     |-> 5000,
      maxProcessingTime     |-> 20000 ]

ProcessingFailedMessage == "Transcription failed: Unable to process audio"

sentences == << "s1", "s2", "s3", "s4", "s5", "s6", "s7", "s8" >>

\* ------------------------------------------------------------- null values
\* A nullable field holds <<>> for null/undefined and <<v>> for the value v.
Null == << >>
Some(v) == << v >>

\* ------------------------------------------------------------------ state
VARIABLES
    config,     \* CONFIG
    uploads,    \* the Map: a function from the stored ids to their records
    intervals,  \* live setInterval timers: id -> time of the next firing
    now,        \* Date.now()
    requests,   \* handlers suspended at an await
    response,   \* the response written by the last step, or NoResponse
    accepted,   \* history: the number of uploads answered 202 so far
    watched     \* history of the watched ids: the firings of their interval

vars ==
    << config, uploads, intervals, now, requests, response, accepted,
       watched >>

Ids == 1 .. MaxUploads

StoredIds == DOMAIN uploads

NoResponse == [ code |-> 0, handler |-> "none" ]

\* -------------------------------------------------------------- randomness
\* The outcomes of `Math.random() < p`, p given in percent: Math.random()
\* lies in [0, 1), so the test can succeed iff p > 0 and fail iff p < 1.
Bernoulli(p) == { b \in BOOLEAN : (b => p > 0) /\ (~b => p < 100) }

\* Draws of Math.random() used for the processing time, in thousandths.
RandomPermille == { 1, 999 }

\* Draws of Math.floor(Math.random() * 5) used for the transcript length.
TranscriptDraws == { 0, 4 }

\* Draws of the slow-down delay 1000 + Math.random() * 2000, whole seconds.
SlowDelays == { SlowDelayBase + (r * SlowDelaySpan) \div 2 : r \in { 0, 1 } }

\* ---------------------------------------------------------------- requests
\* The multipart requests a client sends to POST /uploads.  `audio` is
\* req.files.audio[0], `body` is req.body and `configFile` is the utf8 text
\* of req.files.config[0].buffer; a part that was not sent is Null.
EmptyBody == [ k \in {} |-> "" ]

Submissions ==
    << [ audio |-> Some([ originalname |-> "a.m4a", mimetype |-> "audio/mp4",
                          size |-> 10 ]),
         body |-> EmptyBody, configFile |-> Some("{speakerCount:2}") ],
       [ audio |-> Some([ originalname |-> "b.wav", mimetype |-> "audio/wave",
                          size |-> 20 ]),
         body |-> [ language |-> "de" ], configFile |-> Some("{") ],
       [ audio |-> Null,
         body |-> [ language |-> "fr" ], configFile |-> Null ] >>

SubmissionIds == DOMAIN Submissions

\* JSON.parse on the config texts above: Null stands for the thrown
\* SyntaxError.
JSONParse(text) ==
    IF text = "{speakerCount:2}" THEN Some([ speakerCount |-> 2 ]) ELSE Null

\* { ...f, ...g }: the fields of g override those of f.
Spread(f, g) ==
    [ k \in DOMAIN f \cup DOMAIN g |-> IF k \in DOMAIN g THEN g[k] ELSE f[k] ]

\* body[k] || d
OrDefault(body, k, d) == IF k \in DOMAIN body THEN body[k] ELSE d

\* Lines 124-137: the metadata stored with an accepted upload.
Metadata(s) ==
    LET metadata ==
            Spread([ language     |-> OrDefault(s.body, "language", "en"),
                     speakerCount |-> OrDefault(s.body, "speakerCount", 1) ],
                   s.body)
        parsed == IF s.configFile = Null THEN Null
                  ELSE JSONParse(s.configFile[1])
    IN  IF parsed # Null THEN Spread(metadata, parsed[1]) ELSE metadata

\* ------------------------------------------------------ simulateProcessing
Min(a, b) == IF a <= b THEN a ELSE b

\* Math.round(n / d) for n >= 0, d > 0: halves round up.
MathRound(n, d) == (2 * n + d) \div (2 * d)

\* Faulty variant of Progress: the Math.min(100, ...) cap is forgotten.
ProgressUncapped(elapsed, totalTime) ==
    IF totalTime = 0 THEN 100
    ELSE MathRound(elapsed * 100, totalTime)

\* Faulty variant of Progress: a total time of 0 is taken as no progress
\* instead of dividing by it.
ProgressZeroGuard(elapsed, totalTime) ==
    IF totalTime = 0 THEN 0
    ELSE Min(100, MathRound(elapsed * 100, totalTime))

\* Line 239: Math.min(100, Math.round((elapsed / totalTime) * 100)).  The
\* interval first fires one update interval after creation, so elapsed > 0;
\* with totalTime = 0 the quotient is Infinity and the minimum is 100.
Progress(elapsed, totalTime) ==
    IF totalTime = 0 THEN 100
    ELSE Min(100, MathRound(elapsed * 100, totalTime))

\* Lines 264-276: a prefix of the stock sentences (the join is left out).
generateMockTranscript(draw) == SubSeq(sentences, 1, 3 + draw)

\* Faulty variant of TickRecord: the terminal status strings are misspelt.
TickRecordTypo(record, t, draw) ==
    LET totalTime == record.completesAt - record.createdAt
        elapsed   == t - record.createdAt
        progress  == Progress(elapsed, totalTime)
        status1   == IF record.status = "queued" /\ progress > 5
                     THEN "processing" ELSE record.status
        r1        == [ record EXCEPT !.status = status1,
                                     !.progress = progress ]
    IN  IF progress >= 100
        THEN IF record.willFail
             THEN [ r1 EXCEPT !.status = "fail",
                              !.error = Some(ProcessingFailedMessage) ]
             ELSE [ r1 EXCEPT !.status = "complete",
                              !.progress = 100,
                              !.completedAt = Some(t),
                              !.transcript = Some(generateMockTranscript(draw)) ]
        ELSE r1

\* Faulty variant of TickRecord: the transcript is generated whatever willFail says.
TickRecordAlwaysTranscribes(record, t, draw) ==
    LET totalTime == record.completesAt - record.createdAt
        elapsed   == t - record.createdAt
        progress  == Progress(elapsed, totalTime)
        status1   == IF record.status = "queued" /\ progress > 5
                     THEN "processing" ELSE record.status
        r1        == [ record EXCEPT !.status = status1,
                                     !.progress = progress ]
        r2        == [ r1 EXCEPT !.transcript =
                                    Some(generateMockTranscript(draw)) ]
    IN  IF progress >= 100
        THEN IF record.willFail
             THEN [ r2 EXCEPT !.status = "failed",
                              !.error = Some(ProcessingFailedMessage) ]
             ELSE [ r2 EXCEPT !.status = "completed",
                              !.progress = 100,
                              !.completedAt = Some(t) ]
        ELSE r1

\* Faulty variant of TickRecord: the terminal test is `progress > 100`.
TickRecordNeverTerminal(record, t, draw) ==
    LET totalTime == record.completesAt - record.createdAt
        elapsed   == t - record.createdAt
        progress  == Progress(elapsed, totalTime)
        status1   == IF record.status = "queued" /\ progress > 5
                     THEN "processing" ELSE record.status
    IN  [ record EXCEPT !.status = status1, !.progress = progress ]

\* Faulty variant of TickRecord: the failure is drawn again when progress reaches
\* 100 instead of being read from willFail.
TickRecordRedraws(record, t, draw) ==
    LET totalTime == record.completesAt - record.createdAt
        elapsed   == t - record.createdAt
        progress  == Progress(elapsed, totalTime)
        status1   == IF record.status = "queued" /\ progress > 5
                     THEN "processing" ELSE record.status
        r1        == [ record EXCEPT !.status = status1,
                                     !.progress = progress ]
    IN  IF progress >= 100
        THEN IF draw = 0
             THEN [ r1 EXCEPT !.status = "failed",
                              !.error = Some(ProcessingFailedMessage) ]
             ELSE [ r1 EXCEPT !.status = "completed",
                              !.progress = 100,
                              !.completedAt = Some(t),
                              !.transcript = Some(generateMockTranscript(draw)) ]
        ELSE r1

\* Faulty variant of TickRecord: the record is finished from 95 percent on.
TickRecordEarly(record, t, draw) ==
    LET totalTime == record.completesAt - record.createdAt
        elapsed   == t - record.createdAt
        progress  == Progress(elapsed, totalTime)
        status1   == IF record.status = "queued" /\ progress > 5
                     THEN "processing" ELSE record.status
        r1        == [ record EXCEPT !.status = status1,
                                     !.progress = progress ]
    IN  IF progress >= 95
        THEN IF record.willFail
             THEN [ r1 EXCEPT !.status = "failed",
                              !.error = Some(ProcessingFailedMessage) ]
             ELSE [ r1 EXCEPT !.status = "completed",
                              !.progress = 100,
                              !.completedAt = Some(t),
                              !.transcript = Some(generateMockTranscript(draw)) ]
        ELSE r1

\* Faulty variant of TickRecord: a queued record turns processing from 5
\* percent on instead of above 5 percent.
TickRecordFromFive(record, t, draw) ==
    LET totalTime == record.completesAt - record.createdAt
        elapsed   == t - record.createdAt
        progress  == Progress(elapsed, totalTime)
        status1   == IF record.status = "queued" /\ progress >= 5
                     THEN "processing" ELSE record.status
        r1        == [ record EXCEPT !.status = status1,
                                     !.progress = progress ]
    IN  IF progress >= 100
        THEN IF record.willFail
             THEN [ r1 EXCEPT !.status = "failed",
                              !.error = Some(ProcessingFailedMessage) ]
             ELSE [ r1 EXCEPT !.status = "completed",
                              !.progress = 100,
                              !.completedAt = Some(t),
                              !.transcript = Some(generateMockTranscript(draw)) ]
        ELSE r1

\* Faulty variant of TickRecord: the write of 'processing' is missing.
TickRecordNeverProcessing(record, t, draw) ==
    LET totalTime == record.completesAt - record.createdAt
        elapsed   == t - record.createdAt
        progress  == Progress(elapsed, totalTime)
        r1        == [ record EXCEPT !.progress = progress ]
    IN  IF progress >= 100
        THEN IF record.willFail
             THEN [ r1 EXCEPT !.status = "failed",
                              !.error = Some(ProcessingFailedMessage) ]
             ELSE [ r1 EXCEPT !.status = "completed",
                              !.progress = 100,
                              !.completedAt = Some(t),
                              !.transcript = Some(generateMockTranscript(draw)) ]
        ELSE r1

\* Lines 238-260: the record after one run of the interval callback at
\* time `t`, `draw` being the random draw of generateMockTranscript.
TickRecord(record, t, draw) ==
    LET totalTime == record.completesAt - record.createdAt
        elapsed   == t - record.createdAt
        progress  == Progress(elapsed, totalTime)
        status1   == IF record.status = "queued" /\ progress > 5
                     THEN "processing" ELSE record.status
        r1        == [ record EXCEPT !.status = status1,
                                     !.progress = progress ]
    IN  IF progress >= 100
        THEN IF record.willFail
             THEN [ r1 EXCEPT !.status = "failed",
                              !.error = Some(ProcessingFailedMessage) ]
             ELSE [ r1 EXCEPT !.status = "completed",
                              !.progress = 100,
                              !.completedAt = Some(t),
                              !.transcript = Some(generateMockTranscript(draw)) ]
        ELSE r1

\* Faulty variant of TickClears: clearInterval is forgotten.
TickNeverClears(record, t) == FALSE

\* Faulty variant of TickClears: clearInterval sits in the branch of the
\* completed record only.
TickClearsOnSuccess(record, t) ==
    /\ Progress(t - record.createdAt, record.completesAt - record.createdAt)
         >= 100
    /\ ~ record.willFail

\* Line 247: the callback clears its interval when progress reaches 100.
TickClears(record, t) ==
    Progress(t - record.createdAt, record.completesAt - record.createdAt) >= 100

\* History: a suspended status request notes that the interval of the
\* record it asks for fired while it was suspended.
Ticked(r, id) ==
    IF r.handler = "status" /\ r.at = "slow" /\ r.arg = id
    THEN [ r EXCEPT !.ticked = TRUE ] ELSE r

\* History: the interval of `id` fired and left the store `after`.  A
\* watched id counts the firing, and notes it when the firing took its
\* record from queued straight to completed or failed.
Watch(id, after) ==
    IF id \notin DOMAIN watched THEN watched
    ELSE LET fired  == watched[id].fired + 1
             direct == /\ id \in StoredIds /\ id \in DOMAIN after
                       /\ uploads[id].status = "queued"
                       /\ after[id].status \in { "completed", "failed" }
         IN  [ watched EXCEPT ![id] =
                 [ fired  |-> fired,
                   direct |-> IF direct THEN fired ELSE @.direct ] ]

\* Faulty variant of Tick: the callback writes the progress it computed to every
\* stored record.
TickAll(id) ==
    /\ id \in DOMAIN intervals
    /\ now >= intervals[id]
    /\ id \in StoredIds
    /\ \E draw \in TranscriptDraws :
         LET ticked == TickRecord(uploads[id], now, draw) IN
         /\ uploads' = [ i \in StoredIds |->
                           IF i = id THEN ticked
                           ELSE [ uploads[i] EXCEPT
                                    !.progress = ticked.progress ] ]
         /\ intervals' =
              IF TickClears(uploads[id], now)
              THEN [ i \in DOMAIN intervals \ { id } |-> intervals[i] ]
              ELSE [ intervals EXCEPT ![id] = now + updateInterval ]
    /\ requests' = { Ticked(r, id) : r \in requests }
    /\ watched' = Watch(id, uploads')
    /\ response' = NoResponse
    /\ UNCHANGED << config, now, accepted >>

\* Faulty variant of Tick: the callback waits until no request handler is
\* suspended.
TickWhenIdle(id) ==
    /\ requests = {}
    /\ id \in DOMAIN intervals
    /\ now >= intervals[id]
    /\ IF id \notin StoredIds
       THEN /\ intervals' = [ i \in DOMAIN intervals \ { id } |-> intervals[i] ]
            /\ UNCHANGED uploads
       ELSE \E draw \in TranscriptDraws :
              /\ uploads' = [ uploads EXCEPT
                               ![id] = TickRecord(uploads[id], now, draw) ]
              /\ intervals' =
                   IF TickClears(uploads[id], now)
                   THEN [ i \in DOMAIN intervals \ { id } |-> intervals[i] ]
                   ELSE [ intervals EXCEPT ![id] = now + updateInterval ]
    /\ watched' = Watch(id, uploads')
    /\ response' = NoResponse
    /\ UNCHANGED << config, now, requests, accepted >>

\* Faulty variant of Tick: the callback returns when its record is missing
\* but forgets clearInterval.
TickLeavesOrphan(id) ==
    /\ id \in DOMAIN intervals
    /\ now >= intervals[id]
    /\ IF id \notin StoredIds
       THEN /\ intervals' = [ intervals EXCEPT ![id] = now + updateInterval ]
            /\ UNCHANGED uploads
       ELSE \E draw \in TranscriptDraws :
              /\ uploads' = [ uploads EXCEPT
                               ![id] = TickRecord(uploads[id], now, draw) ]
              /\ intervals' =
                   IF TickClears(uploads[id], now)
                   THEN [ i \in DOMAIN intervals \ { id } |-> intervals[i] ]
                   ELSE [ intervals EXCEPT ![id] = now + updateInterval ]
    /\ requests' = { Ticked(r, id) : r \in requests }
    /\ watched' = Watch(id, uploads')
    /\ response' = NoResponse
    /\ UNCHANGED << config, now, accepted >>

\* Lines 231-261: one firing of the interval of upload `id`.
Tick(id) ==
    /\ id \in DOMAIN intervals
    /\ now >= intervals[id]
    /\ IF id \notin StoredIds
       THEN /\ intervals' = [ i \in DOMAIN intervals \ { id } |-> intervals[i] ]
            /\ UNCHANGED uploads
       ELSE \E draw \in TranscriptDraws :
              /\ uploads' = [ uploads EXCEPT
                               ![id] = TickRecord(uploads[id], now, draw) ]
              /\ intervals' =
                   IF TickClears(uploads[id], now)
                   THEN [ i \in DOMAIN intervals \ { id } |-> intervals[i] ]
                   ELSE [ intervals EXCEPT ![id] = now + updateInterval ]
    /\ requests' = { Ticked(r, id) : r \in requests }
    /\ watched' = Watch(id, uploads')
    /\ response' = NoResponse
    /\ UNCHANGED << config, now, accepted >>

\* ----------------------------------------------------------- POST /uploads
ArrivalWindow == MaxArrivalSteps * updateInterval

\* A handler suspended at `await new Promise(... setTimeout ...)`.
Suspended(handler, at, delay, arg) ==
    [ handler |-> handler, at |-> at, wakeAt |-> now + delay, arg |-> arg,
      ticked |-> FALSE ]

CanSuspend ==
    /\ Cardinality(requests) < MaxRequests
    /\ now <= ArrivalWindow

\* Lines 112 and 118: the submission passes both validations.
Acceptable(s) ==
    /\ s.audio # Null
    /\ s.audio[1].mimetype \in SUPPORTED_AUDIO_TYPES

\* The ids are named in the order randomUUID hands them out.
randomUUID == accepted + 1

\* Acceptable uploads that are suspended in the slow-down delay.
PendingUploads ==
    { r \in requests : /\ r.handler = "upload" /\ r.at = "slow"
                       /\ Acceptable(Submissions[r.arg]) }

\* Upload requests arrive while the model has room for their record.
UploadArrives(sid) ==
    /\ now <= ArrivalWindow
    /\ Acceptable(Submissions[sid]) =>
         accepted + Cardinality(PendingUploads) < MaxUploads

\* Lines 144-157.
NewRecord(uploadId, s, t, processingTime, willFail) ==
    [ id          |-> uploadId,
      filename    |-> s.audio[1].originalname,
      mimeType    |-> s.audio[1].mimetype,
      size        |-> s.audio[1].size,
      metadata    |-> Metadata(s),
      status      |-> "queued",
      progress    |-> 0,
      createdAt   |-> t,
      completesAt |-> t + processingTime,
      willFail    |-> willFail,
      transcript  |-> Null,
      error       |-> Null,
      completedAt |-> Null ]

\* Lines 141-142, Math.random() being r / 1000.
ProcessingTime(r) ==
    config.minProcessingTime +
      (r * (config.maxProcessingTime - config.minProcessingTime)) \div 1000

\* Lines 224-262, up to the setInterval call: the timers after
\* simulateProcessing(uploadId) ran against the store `store`.
simulateProcessing(uploadId, store) ==
    IF uploadId \notin DOMAIN store THEN intervals
    ELSE [ i \in DOMAIN intervals \cup { uploadId } |->
             IF i = uploadId THEN now + updateInterval ELSE intervals[i] ]

\* Faulty variant of UploadProcess: the record is stored and its timer started
\* before the format is validated.
UploadProcessStoresFirst(sid, ticked) ==
    LET s == Submissions[sid] IN
    IF s.audio = Null
    THEN /\ response' = [ code |-> 400, handler |-> "upload",
                          ticked |-> ticked,
                          error |-> "No audio file uploaded" ]
         /\ UNCHANGED << uploads, intervals, accepted >>
    ELSE \E r \in RandomPermille :
         \E willFail \in Bernoulli(config.processingFailureRate) :
           LET uploadId == randomUUID
               record   == NewRecord(uploadId, s, now, ProcessingTime(r),
                                     willFail)
               store    == [ i \in StoredIds \cup { uploadId } |->
                               IF i = uploadId THEN record ELSE uploads[i] ]
           IN  /\ uploadId \in Ids
               /\ uploads' = store
               /\ intervals' = simulateProcessing(uploadId, store)
               /\ IF s.audio[1].mimetype \notin SUPPORTED_AUDIO_TYPES
                  THEN /\ accepted' = accepted
                       /\ response' = [ code |-> 400, handler |-> "upload",
                                        ticked |-> ticked,
                                        error |-> "Unsupported audio format" ]
                  ELSE /\ accepted' = accepted + 1
                       /\ response' = [ code |-> 202, handler |-> "upload",
                                        ticked |-> ticked,
                                        uploadId |-> uploadId,
                                        status |-> "queued" ]

\* Faulty variant of UploadProcess: the check of the mimetype is missing.
UploadProcessNoFormatCheck(sid, ticked) ==
    LET s == Submissions[sid] IN
    IF s.audio = Null
    THEN /\ response' = [ code |-> 400, handler |-> "upload",
                          ticked |-> ticked,
                          error |-> "No audio file uploaded" ]
         /\ UNCHANGED << uploads, intervals, accepted >>
    ELSE \E r \in RandomPermille :
         \E willFail \in Bernoulli(config.processingFailureRate) :
           LET uploadId == randomUUID
               record   == NewRecord(uploadId, s, now, ProcessingTime(r),
                                     willFail)
               store    == [ i \in StoredIds \cup { uploadId } |->
                               IF i = uploadId THEN record ELSE uploads[i] ]
           IN  /\ uploadId \in Ids
               /\ uploads' = store
               /\ intervals' = simulateProcessing(uploadId, store)
               /\ accepted' = accepted + 1
               /\ response' = [ code |-> 202, handler |-> "upload",
                                ticked |-> ticked,
                                uploadId |-> uploadId, status |-> "queued" ]

\* Lines 110-168: validation, creation of the record, start of its timer.
UploadProcess(sid, ticked) ==
    LET s == Submissions[sid] IN
    IF s.audio = Null
    THEN /\ response' = [ code |-> 400, handler |-> "upload",
                          ticked |-> ticked,
                          error |-> "No audio file uploaded" ]
         /\ UNCHANGED << uploads, intervals, accepted >>
    ELSE IF s.audio[1].mimetype \notin SUPPORTED_AUDIO_TYPES
    THEN /\ response' = [ code |-> 400, handler |-> "upload",
                          ticked |-> ticked,
                          error |-> "Unsupported audio format" ]
         /\ UNCHANGED << uploads, intervals, accepted >>
    ELSE \E r \in RandomPermille :
         \E willFail \in Bernoulli(config.processingFailureRate) :
           LET uploadId == randomUUID
               record   == NewRecord(uploadId, s, now, ProcessingTime(r),
                                     willFail)
               store    == [ i \in StoredIds \cup { uploadId } |->
                               IF i = uploadId THEN record ELSE uploads[i] ]
           IN  /\ uploadId \in Ids
               /\ uploads' = store
               /\ intervals' = simulateProcessing(uploadId, store)
               /\ accepted' = accepted + 1
               /\ response' = [ code |-> 202, handler |-> "upload",
                                ticked |-> ticked,
                                uploadId |-> uploadId, status |-> "queued" ]

\* Lines 90-91: the request draws the simulated gateway timeout.
UploadTimeout(sid) ==
    /\ UploadArrives(sid)
    /\ TRUE \in Bernoulli(config.timeoutRate)
    /\ CanSuspend
    /\ requests' = requests \cup
                     { Suspended("upload", "timeout", TimeoutDelay, sid) }
    /\ response' = NoResponse
    /\ UNCHANGED << config, uploads, intervals, now, accepted, watched >>

\* Lines 96-103: the request draws a simulated upload failure.
UploadFailure(sid) ==
    /\ UploadArrives(sid)
    /\ FALSE \in Bernoulli(config.timeoutRate)
    /\ TRUE \in Bernoulli(config.uploadFailureRate)
    /\ \E error \in { [ status |-> 500, message |-> "Internal server error" ],
                      [ status |-> 503,
                        message |-> "Service temporarily unavailable" ] } :
         response' = [ code |-> error.status, handler |-> "upload",
                       ticked |-> FALSE, error |-> error.message ]
    /\ UNCHANGED << config, uploads, intervals, now, requests, accepted, watched >>

\* Lines 106-107: the request draws the slow-down delay.
UploadSlowDown(sid) ==
    /\ UploadArrives(sid)
    /\ FALSE \in Bernoulli(config.timeoutRate)
    /\ FALSE \in Bernoulli(config.uploadFailureRate)
    /\ \E delay \in SlowDelays :
         /\ CanSuspend
         /\ requests' = requests \cup
                          { Suspended("upload", "slow", delay, sid) }
    /\ response' = NoResponse
    /\ UNCHANGED << config, uploads, intervals, now, accepted, watched >>

\* Lines 90-168 with no delay drawn.
UploadDirect(sid) ==
    /\ UploadArrives(sid)
    /\ FALSE \in Bernoulli(config.timeoutRate)
    /\ FALSE \in Bernoulli(config.uploadFailureRate)
    /\ UploadProcess(sid, FALSE)
    /\ UNCHANGED << config, now, requests, watched >>

\* Line 92: the 35 s timer of a suspended upload request fired.
UploadTimeoutResume(req) ==
    /\ req \in requests
    /\ req.handler = "upload" /\ req.at = "timeout"
    /\ now >= req.wakeAt
    /\ requests' = requests \ { req }
    /\ response' = [ code |-> 504, handler |-> "upload",
                     ticked |-> req.ticked, error |-> "Gateway timeout" ]
    /\ UNCHANGED << config, uploads, intervals, now, accepted, watched >>

\* Lines 110-168 after the slow-down delay.
UploadSlowResume(req) ==
    /\ req \in requests
    /\ req.handler = "upload" /\ req.at = "slow"
    /\ now >= req.wakeAt
    /\ requests' = requests \ { req }
    /\ UploadProcess(req.arg, req.ticked)
    /\ UNCHANGED << config, now, watched >>

\* ------------------------------------------------ GET /uploads/:id/status
\* new Date(ms).toISOString()
toISOString(ms) == [ iso |-> ms ]

\* Faulty variant of StatusBody: status and progress are the constants of the 202
\* response instead of the record's fields.
StatusBodyQueued(upload) ==
    [ uploadId  |-> upload.id,
      status    |-> "queued",
      progress  |-> 0,
      filename  |-> upload.filename,
      metadata  |-> upload.metadata,
      createdAt |-> toISOString(upload.createdAt) ]

\* Faulty variant of StatusBody: transcript, completedAt and error are copied
\* from the record whatever its status.
StatusBodyAlways(upload) ==
    [ uploadId    |-> upload.id,
      status      |-> upload.status,
      progress    |-> upload.progress,
      filename    |-> upload.filename,
      metadata    |-> upload.metadata,
      createdAt   |-> toISOString(upload.createdAt),
      transcript  |-> upload.transcript,
      completedAt |-> upload.completedAt,
      error       |-> upload.error ]

\* Lines 190-206: the body of a successful status response.
StatusBody(upload) ==
    LET base == [ uploadId  |-> upload.id,
                  status    |-> upload.status,
                  progress  |-> upload.progress,
                  filename  |-> upload.filename,
                  metadata  |-> upload.metadata,
                  createdAt |-> toISOString(upload.createdAt) ]
        done == IF upload.status = "completed"
                THEN Spread(base,
                       [ transcript  |-> upload.transcript,
                         completedAt |-> IF upload.completedAt = Null THEN Null
                                         ELSE Some(toISOString(
                                                upload.completedAt[1])) ])
                ELSE base
    IN  IF upload.status = "failed"
        THEN Spread(done, [ error |-> upload.error ])
        ELSE done

\* Faulty variant of StatusProcess: the `if (!upload)` check is missing, the
\* handler reads a field of undefined and the request ends in a 500.
StatusProcessUnchecked(uploadId, ticked) ==
    response' =
      IF uploadId \notin StoredIds
      THEN [ code |-> 500, handler |-> "status", ticked |-> ticked,
             error |-> "Internal Server Error" ]
      ELSE [ code |-> 200, handler |-> "status", ticked |-> ticked,
             body |-> StatusBody(uploads[uploadId]) ]

\* Lines 184-208: lookup and response.
StatusProcess(uploadId, ticked) ==
    response' =
      IF uploadId \notin StoredIds
      THEN [ code |-> 404, handler |-> "status", ticked |-> ticked,
             error |-> "Upload not found" ]
      ELSE [ code |-> 200, handler |-> "status", ticked |-> ticked,
             body |-> StatusBody(uploads[uploadId]) ]

\* Lines 174-175: the status request draws the simulated timeout.
StatusTimeout(uploadId) ==
    /\ TRUE \in Bernoulli(config.timeoutRate)
    /\ CanSuspend
    /\ requests' = requests \cup
                     { Suspended("status", "timeout", TimeoutDelay, uploadId) }
    /\ response' = NoResponse
    /\ UNCHANGED << config, uploads, intervals, now, accepted, watched >>

\* Lines 180-181: the status request draws the slow-down delay.
StatusSlowDown(uploadId) ==
    /\ FALSE \in Bernoulli(config.timeoutRate)
    /\ \E delay \in SlowDelays :
         /\ CanSuspend
         /\ requests' = requests \cup
                          { Suspended("status", "slow", delay, uploadId) }
    /\ response' = NoResponse
    /\ UNCHANGED << config, uploads, intervals, now, accepted, watched >>

\* Lines 174-208 with no delay drawn.
StatusDirect(uploadId) ==
    /\ FALSE \in Bernoulli(config.timeoutRate)
    /\ StatusProcess(uploadId, FALSE)
    /\ UNCHANGED << config, uploads, intervals, now, requests, accepted, watched >>

\* Line 176: the 35 s timer of a suspended status request fired.
StatusTimeoutResume(req) ==
    /\ req \in requests
    /\ req.handler = "status" /\ req.at = "timeout"
    /\ now >= req.wakeAt
    /\ requests' = requests \ { req }
    /\ response' = [ code |-> 504, handler |-> "status",
                     ticked |-> req.ticked, error |-> "Gateway timeout" ]
    /\ UNCHANGED << config, uploads, intervals, now, accepted, watched >>

\* Lines 184-208 after the slow-down delay.
StatusSlowResume(req) ==
    /\ req \in requests
    /\ req.handler = "status" /\ req.at = "slow"
    /\ now >= req.wakeAt
    /\ requests' = requests \ { req }
    /\ StatusProcess(req.arg, req.ticked)
    /\ UNCHANGED << config, uploads, intervals, now, accepted, watched >>

\* ------------------------------------------------------------ GET /uploads
\* Lines 213-219: one entry of the listing.
Summary(u) ==
    [ uploadId  |-> u.id,
      filename  |-> u.filename,
      status    |-> u.status,
      progress  |-> u.progress,
      createdAt |-> toISOString(u.createdAt) ]

\* Faulty variant of List: the listing stops before the newest record.
ListDropsLast ==
    /\ response' = [ code |-> 200, handler |-> "list", ticked |-> FALSE,
                     list |-> [ i \in 1 .. Cardinality(StoredIds) - 1 |->
                                  Summary(uploads[i]) ] ]
    /\ UNCHANGED << config, uploads, intervals, now, requests, accepted, watched >>

\* Lines 212-221: the Map iterates in insertion order, which is id order.
List ==
    /\ response' = [ code |-> 200, handler |-> "list", ticked |-> FALSE,
                     list |-> [ i \in 1 .. Cardinality(StoredIds) |->
                                  Summary(uploads[i]) ] ]
    /\ UNCHANGED << config, uploads, intervals, now, requests, accepted, watched >>

\* ------------------------------------------------------------------ clock
\* The times at which the pending timers are due.
DueTimes ==
    { intervals[i] : i \in DOMAIN intervals } \cup
    { r.wakeAt : r \in requests }

\* Time passes by one update interval; the event loop runs a due timer at
\* most MaxLag intervals late.  Once no timer is pending and no upload can
\* arrive any more, nothing reads the clock and it is left where it is.
AdvanceClock ==
    /\ now < ArrivalWindow \/ DueTimes # {}
    /\ \A due \in DueTimes :
         now + updateInterval <= due + MaxLag * updateInterval
    /\ now' = now + updateInterval
    /\ response' = NoResponse
    /\ UNCHANGED << config, uploads, intervals, requests, accepted, watched >>

\* ---------------------------------------------------------- specification
EmptyMap == [ i \in {} |-> 0 ]

Init ==
    /\ config = ShippedConfig
    /\ uploads = EmptyMap
    /\ intervals = EmptyMap
    /\ now = 0
    /\ requests = {}
    /\ response = NoResponse
    /\ accepted = 0
    /\ watched = EmptyMap

Next ==
    \/ \E sid \in SubmissionIds : UploadTimeout(sid)
    \/ \E sid \in SubmissionIds : UploadFailure(sid)
    \/ \E sid \in SubmissionIds : UploadSlowDown(sid)
    \/ \E sid \in SubmissionIds : UploadDirect(sid)
    \/ \E req \in requests : UploadTimeoutResume(req)
    \/ \E req \in requests : UploadSlowResume(req)
    \/ \E id \in Ids : StatusTimeout(id)
    \/ \E id \in Ids : StatusSlowDown(id)
    \/ \E id \in Ids : StatusDirect(id)
    \/ \E req \in requests : StatusTimeoutResume(req)
    \/ \E req \in requests : StatusSlowResume(req)
    \/ List
    \/ \E id \in Ids : Tick(id)
    \/ AdvanceClock

Spec == Init /\ [][Next]_vars

\* A timer that is due is run by the event loop, and time passes.
Resume ==
    \E req \in requests :
        \/ UploadTimeoutResume(req) \/ UploadSlowResume(req)
        \/ StatusTimeoutResume(req) \/ StatusSlowResume(req)

FairSpec ==
    /\ Spec
    /\ WF_vars(AdvanceClock)
    /\ WF_vars(Resume)
    /\ \A id \in Ids : WF_vars(Tick(id))

\* The server started with CONFIG.minProcessingTime and
\* CONFIG.maxProcessingTime set to 0: every record has totalTime 0.
ZeroConfig ==
    [ ShippedConfig EXCEPT !.minProcessingTime = 0, !.maxProcessingTime = 0 ]

ZeroInit ==
    /\ config = ZeroConfig
    /\ uploads = EmptyMap
    /\ intervals = EmptyMap
    /\ now = 0
    /\ requests = {}
    /\ response = NoResponse
    /\ accepted = 0
    /\ watched = EmptyMap

ZeroSpec == ZeroInit /\ [][Next]_vars

\* The event loop is held up (the process is stopped, a handler blocks, or
\* the wall clock is set forward) for up to MaxStallSteps update intervals
\* while the interval of an unfinished record is pending.
Stall ==
    /\ \E id \in DOMAIN intervals \cap StoredIds :
         now < uploads[id].completesAt
    /\ \E k \in 2 .. MaxStallSteps : now' = now + k * updateInterval
    /\ response' = NoResponse
    /\ UNCHANGED << config, uploads, intervals, requests, accepted, watched >>

\* The uploads and their intervals alone, under either configuration, with
\* stalls of the event loop and with the firings of every interval counted.
WatchInit ==
    /\ config \in { ShippedConfig, ZeroConfig }
    /\ uploads = EmptyMap
    /\ intervals = EmptyMap
    /\ now = 0
    /\ requests = {}
    /\ response = NoResponse
    /\ accepted = 0
    /\ watched = [ id \in Ids |-> [ fired |-> 0, direct |-> 0 ] ]

WatchNext ==
    \/ \E sid \in SubmissionIds : accepted < MaxWatched /\ UploadDirect(sid)
    \/ \E id \in Ids : Tick(id)
    \/ AdvanceClock
    \/ Stall

WatchSpec == WatchInit /\ [][WatchNext]_vars

\* The removal the specification speaks of (the source never deletes from
\* the Map): the record of `id` is taken out of the store while its
\* interval is live.
Remove(id) ==
    /\ id \in StoredIds
    /\ id \in DOMAIN intervals
    /\ uploads' = [ i \in StoredIds \ { id } |-> uploads[i] ]
    /\ response' = NoResponse
    /\ UNCHANGED << config, intervals, now, requests, accepted, watched >>

\* The uploads, their intervals and the status handler, with removals.
RemovalNext ==
    \/ \E sid \in SubmissionIds : UploadDirect(sid)
    \/ \E id \in Ids : StatusDirect(id)
    \/ \E id \in Ids : Tick(id)
    \/ \E id \in Ids : Remove(id)
    \/ AdvanceClock

RemovalSpec == Init /\ [][RemovalNext]_vars

\* ================================================================ claims
Terminal(r) == r.status \in { "completed", "failed" }

\* C1: every stored record's progress is an integer in 0..100, and no step
\* lowers the progress of a stored record.
C1_ProgressBoundedMonotone ==
    /\ [](\A id \in StoredIds : uploads[id].progress \in 0 .. 100)
    /\ [][\A id \in StoredIds :
            uploads'[id].progress >= uploads[id].progress]_vars

\* A record half-way: ticks have raised its progress above 50, below 100.
C1_Witness ==
    \E id \in StoredIds :
        /\ uploads[id].status = "processing"
        /\ uploads[id].progress > 50 /\ uploads[id].progress < 100

\* C2: the only status changes are queued->processing, queued->completed,
\* queued->failed, processing->completed and processing->failed.
LegalTransitions ==
    { << "queued", "processing" >>, << "queued", "completed" >>,
      << "queued", "failed" >>, << "processing", "completed" >>,
      << "processing", "failed" >> }

C2_StatusTransitions ==
    [][\A id \in StoredIds :
         \/ uploads'[id].status = uploads[id].status
         \/ << uploads[id].status, uploads'[id].status >> \in LegalTransitions
      ]_vars

\* One record went processing->completed and another processing->failed.
C2_Witness ==
    /\ \E id \in StoredIds : uploads[id].status = "completed"
    /\ \E id \in StoredIds : uploads[id].status = "failed"

\* C3: once a record is completed or failed its interval is cleared and no
\* step changes its status, progress, transcript, error or completedAt.
C3_TerminalFrozen ==
    /\ [](\A id \in StoredIds :
            Terminal(uploads[id]) => id \notin DOMAIN intervals)
    /\ [][\A id \in StoredIds :
            Terminal(uploads[id]) =>
              /\ uploads'[id].status = uploads[id].status
              /\ uploads'[id].progress = uploads[id].progress
              /\ uploads'[id].transcript = uploads[id].transcript
              /\ uploads'[id].error = uploads[id].error
              /\ uploads'[id].completedAt = uploads[id].completedAt]_vars

\* A status query answered for a completed record while the interval of
\* another record is still live.
C3_Witness ==
    /\ response.code = 200 /\ response.handler = "status"
    /\ response.body.status = "completed"
    /\ DOMAIN intervals # {}

\* C4: queued/processing records have null transcript and error, completed
\* records a transcript and no error, failed records an error and no
\* transcript.
C4_TranscriptErrorByStatus ==
    \A id \in StoredIds :
        LET r == uploads[id] IN
        /\ r.status \in { "queued", "processing" } =>
             r.transcript = Null /\ r.error = Null
        /\ r.status = "completed" => r.transcript # Null /\ r.error = Null
        /\ r.status = "failed" => r.error # Null /\ r.transcript = Null

\* A failed record next to a record that is still processing.
C4_Witness ==
    /\ \E id \in StoredIds : uploads[id].status = "failed"
    /\ \E id \in StoredIds : uploads[id].status = "processing"

\* C5: under fair scheduling of the timers and of the clock, every stored
\* record eventually is completed or failed, and from then on it stays so
\* with exactly one of transcript and error non-null.
C5_EventuallyTerminal ==
    \A id \in Ids :
        (id \in StoredIds) ~>
            [](/\ id \in StoredIds
               /\ Terminal(uploads[id])
               /\ (uploads[id].transcript = Null) # (uploads[id].error = Null))

\* Every id was handed out and every record has reached a terminal status.
C5_Witness ==
    /\ StoredIds = Ids
    /\ \A id \in StoredIds : Terminal(uploads[id])

\* C6: willFail never changes, and a terminal record is failed with the
\* fixed message and no transcript if willFail, completed with a transcript
\* and no error otherwise.
C6_OutcomeFixedByWillFail ==
    /\ [][\A id \in StoredIds :
            uploads'[id].willFail = uploads[id].willFail]_vars
    /\ [](\A id \in StoredIds :
            LET r == uploads[id] IN
            Terminal(r) =>
              IF r.willFail
              THEN /\ r.status = "failed"
                   /\ r.error = Some(ProcessingFailedMessage)
                   /\ r.transcript = Null
              ELSE /\ r.status = "completed"
                   /\ r.transcript # Null
                   /\ r.error = Null)

\* A record drawn to fail has failed and one drawn to succeed has completed.
C6_Witness ==
    /\ \E id \in StoredIds : uploads[id].willFail /\ Terminal(uploads[id])
    /\ \E id \in StoredIds : ~ uploads[id].willFail /\ Terminal(uploads[id])

\* C7: the store holds as many records as uploads were answered 202, every
\* stored record has all its fields, and a listing has one fully built
\* entry per accepted upload.
RecordFields ==
    { "id", "filename", "mimeType", "size", "metadata", "status", "progress",
      "createdAt", "completesAt", "willFail", "transcript", "error",
      "completedAt" }

Statuses == { "queued", "processing", "completed", "failed" }

C7_ListMatchesAccepted ==
    /\ Cardinality(StoredIds) = accepted
    /\ \A id \in StoredIds :
         /\ DOMAIN uploads[id] = RecordFields
         /\ uploads[id].id = id
    /\ response.handler = "list" =>
         /\ Len(response.list) = accepted
         /\ \A i \in 1 .. Len(response.list) :
              LET e == response.list[i] IN
              /\ e.uploadId \in StoredIds
              /\ e.filename = uploads[e.uploadId].filename
              /\ e.status \in Statuses
              /\ e.progress \in 0 .. 100
              /\ e.createdAt = toISOString(uploads[e.uploadId].createdAt)

\* A listing of two accepted uploads.
C7_Witness ==
    /\ response.handler = "list"
    /\ Len(response.list) = 2
    /\ accepted = 2

\* C8: a tick of record id leaves the creation-time fields of id and every
\* other record as they were; the status and list handlers leave the store
\* as it was; the upload handler at most adds one record.
CreationFields ==
    { "id", "filename", "mimeType", "size", "metadata", "createdAt",
      "completesAt", "willFail" }

StatusOrListStep ==
    \/ \E id \in Ids : StatusTimeout(id) \/ StatusSlowDown(id)
                         \/ StatusDirect(id)
    \/ \E req \in requests : StatusTimeoutResume(req) \/ StatusSlowResume(req)
    \/ List

UploadStep ==
    \/ \E sid \in SubmissionIds :
         \/ UploadTimeout(sid) \/ UploadFailure(sid)
         \/ UploadSlowDown(sid) \/ UploadDirect(sid)
    \/ \E req \in requests : UploadTimeoutResume(req) \/ UploadSlowResume(req)

C8_SingleWriter ==
    [][/\ \A id \in Ids :
            Tick(id) =>
              /\ DOMAIN uploads' = StoredIds
              /\ \A j \in StoredIds \ { id } : uploads'[j] = uploads[j]
              /\ id \in StoredIds =>
                   \A f \in CreationFields : uploads'[id][f] = uploads[id][f]
       /\ StatusOrListStep => uploads' = uploads
       /\ UploadStep =>
            /\ \A id \in StoredIds :
                 id \in DOMAIN uploads' /\ uploads'[id] = uploads[id]
            /\ Cardinality(DOMAIN uploads') <= Cardinality(StoredIds) + 1
      ]_vars

\* Two stored records whose ticks have brought them to different progress.
C8_Witness ==
    \E i \in StoredIds : \E j \in StoredIds :
        /\ uploads[i].progress > uploads[j].progress
        /\ uploads[j].progress > 0

\* C9: a step that answers 504, 500, 503 or 400, and a step that suspends a
\* request in the simulated timeout, leaves the records and the timers as
\* they were.
ErrorCodes == { 400, 500, 503, 504 }

C9_ErrorsLeaveStore ==
    [][(\/ response'.code \in ErrorCodes
        \/ \E r \in requests' \ requests : r.at = "timeout")
         => uploads' = uploads /\ intervals' = intervals]_vars

\* A rejected upload answered while a record is in flight.
C9_Witness ==
    /\ response.code = 400
    /\ response.handler = "upload"
    /\ \E id \in StoredIds : uploads[id].status = "processing"

\* C10: a successful status response carries the status and progress the
\* record holds in the state in which the response is written.
C10_ResponseIsCurrent ==
    (response.code = 200 /\ response.handler = "status") =>
        /\ response.body.uploadId \in StoredIds
        /\ response.body.status = uploads[response.body.uploadId].status
        /\ response.body.progress = uploads[response.body.uploadId].progress

\* A status request that was suspended in the slow-down delay while the
\* record's interval fired, and that reports the progress written since.
C10_Witness ==
    /\ response.code = 200 /\ response.handler = "status"
    /\ response.ticked
    /\ response.body.progress > 0

\* The resumption of the suspended request `req`.
ResumeOf(req) ==
    \/ UploadTimeoutResume(req) \/ UploadSlowResume(req)
    \/ StatusTimeoutResume(req) \/ StatusSlowResume(req)

StatusLookup(id) ==
    \/ StatusDirect(id)
    \/ \E req \in requests : req.arg = id /\ StatusSlowResume(req)

\* C12: a status lookup of an id that is not stored answers 404 'Upload not
\* found' with no record payload, and leaves the store and the timers as
\* they were; a stored id is never answered 404.
C12_UnknownIdNotFound ==
    [][\A id \in Ids :
         StatusLookup(id) =>
           IF id \in StoredIds
           THEN response'.code = 200
           ELSE /\ response'.code = 404
                /\ response'.error = "Upload not found"
                /\ "body" \notin DOMAIN response'
                /\ uploads' = uploads
                /\ intervals' = intervals]_vars

\* An unknown id was answered 404 while the store holds another record.
C12_Witness ==
    /\ response.code = 404 /\ response.handler = "status"
    /\ StoredIds # {}

\* C13: every stored record has a supported mimeType, and a step that
\* answers 400 adds no record and starts no interval.
C13_StoredTypesSupported ==
    /\ [](\A id \in StoredIds :
            uploads[id].mimeType \in SUPPORTED_AUDIO_TYPES)
    /\ [][response'.code = 400 =>
            /\ DOMAIN uploads' = StoredIds
            /\ DOMAIN intervals' = DOMAIN intervals]_vars

\* An upload of an unsupported format was rejected after another upload was
\* stored.
C13_Witness ==
    /\ response.code = 400
    /\ response.error = "Unsupported audio format"
    /\ StoredIds # {}

\* C14: a 200 status response carries transcript and completedAt exactly
\* when the record is completed and error exactly when it is failed, and a
\* stored record has a completedAt exactly when it is completed.
C14_FieldsFollowStatus ==
    /\ (response.code = 200 /\ response.handler = "status") =>
         LET body == response.body IN
         /\ "transcript" \in DOMAIN body <=> body.status = "completed"
         /\ "completedAt" \in DOMAIN body <=> body.status = "completed"
         /\ "error" \in DOMAIN body <=> body.status = "failed"
         /\ body.status = "completed" =>
              body.transcript # Null /\ body.completedAt # Null
         /\ body.status = "failed" => body.error # Null
    /\ \A id \in StoredIds :
         uploads[id].completedAt # Null <=> uploads[id].status = "completed"

\* A status response for a failed record.
C14_Witness ==
    /\ response.code = 200 /\ response.handler = "status"
    /\ response.body.status = "failed"
    /\ "error" \in DOMAIN response.body

\* C19 as stated: a terminal record exists only from its completesAt on, and
\* completedAt is no earlier than completesAt.
C19_NeverBeforeCompletesAt ==
    \A id \in StoredIds :
        LET r == uploads[id] IN
        /\ Terminal(r) => now >= r.completesAt
        /\ r.completedAt # Null => r.completedAt[1] >= r.completesAt

\* Math.round reaches 100 from 99.5 percent on: 200 * elapsed >= 199 * total.
Rounds100(elapsed, totalTime) == 200 * elapsed >= 199 * totalTime

\* C19, amended: a record turns terminal only on a tick whose elapsed time
\* is at least 99.5 percent of its total duration; no record is terminal
\* earlier than that, and completedAt - createdAt is at least 99.5 percent
\* of the total duration.
C19_NeverBeforeRounding ==
    /\ [][\A id \in StoredIds :
            (~ Terminal(uploads[id]) /\ Terminal(uploads'[id])) =>
              Rounds100(now - uploads[id].createdAt,
                        uploads[id].completesAt - uploads[id].createdAt)]_vars
    /\ [](\A id \in StoredIds :
            LET r     == uploads[id]
                total == r.completesAt - r.createdAt
            IN  /\ Terminal(r) => Rounds100(now - r.createdAt, total)
                /\ r.completedAt # Null =>
                     Rounds100(r.completedAt[1] - r.createdAt, total))

\* A record completed before its completesAt.
C19_Witness ==
    \E id \in StoredIds :
        /\ uploads[id].status = "completed"
        /\ uploads[id].completedAt[1] < uploads[id].completesAt

\* C20: a queued record has progress <= 5, a processing record a progress
\* above 5 and below 100, a completed or failed record progress 100.
C20_StatusAgreesWithProgress ==
    \A id \in StoredIds :
        LET r == uploads[id] IN
        /\ r.status = "queued" => r.progress <= 5
        /\ r.status = "processing" => r.progress > 5 /\ r.progress < 100
        /\ Terminal(r) => r.progress = 100
        /\ r.progress = 100 => Terminal(r)

\* A record still queued at progress 5 next to a failed record at 100.
C20_Witness ==
    /\ \E id \in StoredIds :
         uploads[id].status = "queued" /\ uploads[id].progress = 5
    /\ \E id \in StoredIds :
         uploads[id].status = "failed" /\ uploads[id].progress = 100

\* C17: with minProcessingTime = maxProcessingTime = 0 every firing of an
\* interval finds its record queued at progress 0, writes progress 100 and a
\* terminal status and clears the interval; no record ever is processing
\* and no status response reports processing.
C17_ZeroDurationSkipsProcessing ==
    /\ [][\A id \in StoredIds :
            Tick(id) =>
              /\ uploads[id].completesAt = uploads[id].createdAt
              /\ uploads[id].status = "queued" /\ uploads[id].progress = 0
              /\ uploads'[id].progress = 100
              /\ Terminal(uploads'[id])
              /\ id \notin DOMAIN intervals']_vars
    /\ [](\A id \in StoredIds : uploads[id].status # "processing")
    /\ []((response.code = 200 /\ response.handler = "status") =>
            response.body.status # "processing")

\* A status request that waited in the slow-down while the only tick of its
\* record ran reports the record completed at progress 100.
C17_Witness ==
    /\ response.code = 200 /\ response.handler = "status"
    /\ response.ticked
    /\ response.body.status = "completed"
    /\ response.body.progress = 100
    /\ uploads[response.body.uploadId].completesAt =
         uploads[response.body.uploadId].createdAt

Ceil(n, d) == (n + d - 1) \div d

Max(a, b) == IF a > b THEN a ELSE b

\* ceil(totalDuration / tickPeriod) of the record of `id`.
TickBound(id) ==
    Ceil(uploads[id].completesAt - uploads[id].createdAt, updateInterval)

\* C15 as stated: the interval of a record fires at most
\* ceil(totalDuration / tickPeriod) times, also for totalDuration = 0.
C15_AtMostCeilTicks ==
    \A id \in StoredIds \cap DOMAIN watched :
        watched[id].fired <= TickBound(id)

\* C15, amended: the interval of a record fires at most
\* max(1, ceil(totalDuration / tickPeriod)) times, and once it has fired
\* that often it is cleared and the record is terminal.
C15_AtMostCeilTicksOrOne ==
    \A id \in StoredIds \cap DOMAIN watched :
        /\ watched[id].fired <= Max(1, TickBound(id))
        /\ watched[id].fired = Max(1, TickBound(id)) =>
             id \notin DOMAIN intervals /\ Terminal(uploads[id])

\* The bound is attained: a record of 19985 ms failed on its 20th tick.
C15_Witness ==
    \E id \in StoredIds :
        /\ watched[id].fired = TickBound(id)
        /\ TickBound(id) = 20
        /\ uploads[id].status = "failed"

\* C16 as stated: only the first firing of an interval takes its record
\* from queued straight to completed or failed.
C16_DirectOnlyOnFirstTick ==
    \A id \in DOMAIN watched : watched[id].direct \in { 0, 1 }

\* C16, amended: a firing takes a record from queued straight to completed
\* or failed only if the record's progress was still at most 5, and that is
\* the first firing or a later firing that runs after its scheduled time;
\* a later firing that runs on schedule and ends a record finds it
\* processing.
C16_DirectOnlyFirstOrLate ==
    [][\A id \in StoredIds \cap DOMAIN watched :
         (Tick(id) /\ Terminal(uploads'[id])) =>
           \/ uploads[id].status = "processing"
           \/ /\ uploads[id].status = "queued"
              /\ uploads[id].progress <= 5
              /\ watched[id].fired = 0 \/ now > intervals[id]]_vars

\* A record went from queued to a terminal status on its second tick.
C16_Witness ==
    \E id \in StoredIds :
        /\ watched[id].direct = 2
        /\ Terminal(uploads[id])

\* An interval whose record is no longer stored.
Orphan(id) == id \in DOMAIN intervals /\ id \notin StoredIds

\* C18: the interval of a removed record can fire as soon as it is due and
\* is never rescheduled; its firing clears that interval alone, writes no
\* record, does not put the id back and answers nothing; a due interval of
\* another record can fire all the same.
C18_RemovedRecordStopsTask ==
    /\ [](\A id \in Ids :
            Orphan(id) =>
              \A j \in DOMAIN intervals :
                  now >= intervals[j] => ENABLED Tick(j))
    /\ [][\A id \in Ids :
            Orphan(id) =>
              /\ id \notin DOMAIN uploads'
              /\ id \in DOMAIN intervals' => intervals'[id] = intervals[id]
              /\ Tick(id) =>
                   /\ uploads' = uploads
                   /\ intervals' =
                        [ j \in DOMAIN intervals \ { id } |-> intervals[j] ]
                   /\ response' = NoResponse]_vars

\* A record was removed and its interval has stopped, while the other
\* record is processing and its interval is live.
C18_Witness ==
    /\ accepted = 2
    /\ Cardinality(StoredIds) = 1
    /\ DOMAIN intervals = StoredIds
    /\ \A id \in StoredIds : uploads[id].status = "processing"

====
